---- MODULE Spec2Model ----
(***************************************************************************)
(* Model of the task dispatcher of backinajiffy.mama (parallel.py) and of  *)
(* the connection chain it opens per task (remote.connect).                *)
(*                                                                         *)
(* spawn_processes puts the inputs on a process-shared queue and starts    *)
(* worker processes; each worker runs spawn_tasks on an event loop of its  *)
(* own; each pulled target becomes one run_task_on_remote task.            *)
(*                                                                         *)
(* Three further specifications model, each on variables of its own, the   *)
(* command helpers of remote.py under a clock (RemoteSpec), the target     *)
(* resolver resolve_cli_arguments (ResolveSpec) and utils.Delay            *)
(* (DelaySpec).                                                            *)
(***************************************************************************)
EXTENDS Integers, Naturals, Sequences, FiniteSets, TLC

\* ------------------------------------------------------------------ bounds
MaxTargets == 2   \* number of inputs of a dispatch: 0..MaxTargets
MaxTasks   == 2   \* the max_tasks argument: 1..MaxTasks
MaxHops    == 2   \* hops of a chain (jump hosts plus the end host): 1..MaxHops

\* Values of the processes argument of spawn_processes.
ProcessCounts == {1, 2}

\* ------------------------------------------------------------------- state
VARIABLES
    inputs,      \* the list handed to spawn_processes
    processes,   \* worker count after the cap of parallel.py:22-23
    max_tasks,   \* per-worker batch size
    nhops,       \* len(remote['jump_hosts']) + 1, the same for every target
    queue,       \* the manager queue shared by the workers
    wpc,         \* worker -> position in spawn_tasks
    tasks,       \* worker -> the local list `tasks` (current batch)
    results,     \* worker -> the local list `results`
    tstat,       \* target -> state of its run_task_on_remote task: "queued",
                 \* "connecting", "running", "returned" (task_func's value),
                 \* "failed" (an error was caught and logged, None returned),
                 \* or "raised_<e>" (exception e left the task)
    owner,       \* target -> worker that pulled it (0: nobody yet)
    launched,    \* target -> number of create_task(run_task_on_remote(..)) calls
    invoked,     \* target -> number of task_func(remote, conn) calls
    opened,      \* target -> hops opened so far by connect
    sess,        \* target -> hop -> "none" | "open" | "closed"
    tunnel,      \* target -> hop -> the hop it was dialed through (0: dialed
                 \* directly, -1: not dialed)
    conn,        \* target -> the hop whose session task_func was given (0: none)
    closeLog,    \* target -> hops in the order close() was called on them
    closeErr,    \* target -> a close() raised ConnectionError (logged, swallowed)
    failLog,     \* target -> number of 'Failed task' log entries naming it
    dispatch,    \* "waiting" | "returned" | "raised": spawn_processes itself
    final,       \* the list spawn_processes returns
    dial,        \* RemoteSpec: one dial of connect, under a clock
    call,        \* RemoteSpec: one call of run_cmd, run_cmd_logged or cat_file
    rsv,         \* ResolveSpec: one call of resolve_cli_arguments
    dly          \* DelaySpec: one utils.Delay object and its last result

\* The variables of the dispatch, and those of the other components.
dispatchVars == <<inputs, processes, max_tasks, nhops, queue, wpc, tasks, results,
                  tstat, owner, launched, invoked, opened, sess, tunnel, conn,
                  closeLog, closeErr, failLog, dispatch, final>>
otherVars == <<dial, call, rsv, dly>>

vars == <<dispatchVars, otherVars>>

\* What no step of a dispatch changes: its arguments, and the other components.
params == <<inputs, processes, max_tasks, nhops, otherVars>>
wvars  == <<wpc, tasks, results>>
tvars  == <<tstat, owner, launched, invoked, opened, sess, tunnel, conn,
            closeLog, closeErr, failLog>>
dvars  == <<dispatch, final>>

\* ----------------------------------------------------------------- helpers
Targets == 1 .. Len(inputs)
Workers == 1 .. processes
Hops    == 1 .. nhops

Min(a, b) == IF a < b THEN a ELSE b

\* The value a task function returns for target t, and Python's None.
R(t) == t
None == 0

\* Exceptions a dial or the task function may raise.
Errors == {"timeout", "connerr", "unexpected"}

\* reversed(connections)
Reversed(s) == [i \in 1 .. Len(s) |-> s[Len(s) + 1 - i]]

SeqToSet(s) == {s[i] : i \in DOMAIN s}

\* A component that is not part of the specification at hand stays parked.
Parked == "parked"
OthersParked == dial = Parked /\ call = Parked /\ rsv = Parked /\ dly = Parked

\* -------------------------------------------------------------------- Init
\* spawn_processes up to the start of the workers: the queue holds the inputs
\* in order, and the worker count is capped at the queue size.
Init ==
    \E n \in 0 .. MaxTargets, p \in ProcessCounts, m \in 1 .. MaxTasks, h \in 1 .. MaxHops :
        /\ inputs = [i \in 1 .. n |-> i]
        /\ processes = Min(p, n)
        /\ max_tasks = m
        /\ nhops = h
        /\ queue = [i \in 1 .. n |-> i]
        /\ wpc = [w \in 1 .. Min(p, n) |-> "loop"]
        /\ tasks = [w \in 1 .. Min(p, n) |-> <<>>]
        /\ results = [w \in 1 .. Min(p, n) |-> <<>>]
        /\ tstat = [t \in 1 .. n |-> "queued"]
        /\ owner = [t \in 1 .. n |-> 0]
        /\ launched = [t \in 1 .. n |-> 0]
        /\ invoked = [t \in 1 .. n |-> 0]
        /\ opened = [t \in 1 .. n |-> 0]
        /\ sess = [t \in 1 .. n |-> [k \in 1 .. h |-> "none"]]
        /\ tunnel = [t \in 1 .. n |-> [k \in 1 .. h |-> -1]]
        /\ conn = [t \in 1 .. n |-> 0]
        /\ closeLog = [t \in 1 .. n |-> <<>>]
        /\ closeErr = [t \in 1 .. n |-> FALSE]
        /\ failLog = [t \in 1 .. n |-> 0]
        /\ dispatch = "waiting"
        /\ final = <<>>
        /\ OthersParked

\* ------------------------------------------------------------ spawn_tasks
\* A worker's event loop runs its tasks only while spawn_tasks is suspended in
\* an await: sleep(0) (position "loop"), or a gather. queue.get() is a blocking
\* call made on the loop's own thread: nothing else runs in that worker while
\* it waits.
LoopRunning(w) == wpc[w] \in {"loop", "gather", "final_gather"}

\* Mutant: `return results` right behind the loop.
AfterLoopNoGather(batch) == "returned"

\* Behind the loop: `if tasks: results += await asyncio.gather(*tasks)`.
AfterLoop(batch) == IF batch # <<>> THEN "final_gather" ELSE "returned"

\* `while not queue.empty()`: the test alone; the pull is a separate call.
WorkerCheck(w) ==
    /\ wpc[w] = "loop"
    /\ wpc' = [wpc EXCEPT ![w] = IF queue # <<>> THEN "get" ELSE AfterLoop(tasks[w])]
    /\ UNCHANGED <<params, queue, tasks, results, tvars, dvars>>

\* Mutant: `if len(tasks) > max_tasks`.
BatchFullOffByOne(n) == n > max_tasks

\* `if len(tasks) >= max_tasks`
BatchFull(n) == n >= max_tasks

\* `remote = queue.get()` (blocks while the queue is empty), create_task, and
\* the batch test of line 53.
WorkerGet(w) ==
    /\ wpc[w] = "get"
    /\ queue # <<>>
    /\ LET t == Head(queue)
           batch == Append(tasks[w], t)
       IN /\ queue' = Tail(queue)
          /\ tasks' = [tasks EXCEPT ![w] = batch]
          /\ tstat' = [tstat EXCEPT ![t] = "connecting"]
          /\ owner' = [owner EXCEPT ![t] = w]
          /\ launched' = [launched EXCEPT ![t] = @ + 1]
          /\ wpc' = [wpc EXCEPT ![w] = IF BatchFull(Len(batch)) THEN "gather" ELSE "loop"]
    /\ UNCHANGED <<params, results, invoked, opened, sess, tunnel, conn,
                   closeLog, closeErr, failLog, dvars>>

\* Mutant: the `except asyncio.TimeoutError` clause is missing.
CaughtWithoutTimeoutClause(e) == e = "connerr"

\* The except clauses of run_task_on_remote: asyncio.TimeoutError, and
\* (asyncssh.Error, socket.error, ConnectionError). Anything else propagates.
Caught(e) == e \in {"timeout", "connerr"}

\* How a task that raised e ends: the handler logs and the coroutine falls off
\* its end, or e leaves the coroutine.
Raised(e) ==
    CASE e = "timeout" -> "raised_timeout"
      [] e = "connerr" -> "raised_connerr"
      [] e = "unexpected" -> "raised_unexpected"
Outcome(e) == IF Caught(e) THEN "failed" ELSE Raised(e)

Propagates(t) == tstat[t] \in {Raised(e) : e \in Errors}
Resolved(t) == tstat[t] \in {"returned", "failed"} \/ Propagates(t)

\* What the task's coroutine returns: task_func's value, or None by falling
\* off the end after a caught error.
ReturnValue(t) == IF tstat[t] = "returned" THEN R(t) ELSE None

\* `results += await asyncio.gather(*tasks)`: every task of the batch returned.
WorkerGatherDone(w) ==
    /\ wpc[w] \in {"gather", "final_gather"}
    /\ \A i \in DOMAIN tasks[w] : Resolved(tasks[w][i]) /\ ~Propagates(tasks[w][i])
    /\ results' = [results EXCEPT ![w] = @ \o [i \in DOMAIN tasks[w] |-> ReturnValue(tasks[w][i])]]
    /\ tasks' = [tasks EXCEPT ![w] = IF wpc[w] = "gather" THEN <<>> ELSE @]
    /\ wpc' = [wpc EXCEPT ![w] = IF wpc[w] = "gather" THEN "loop" ELSE "returned"]
    /\ UNCHANGED <<params, queue, tvars, dvars>>

\* gather without return_exceptions: the first exception of a task is raised
\* in spawn_tasks, which has no handler; run_until_complete re-raises it and
\* the worker's loop stops with the other tasks of the batch still pending.
WorkerGatherRaise(w) ==
    /\ wpc[w] \in {"gather", "final_gather"}
    /\ \E i \in DOMAIN tasks[w] : Propagates(tasks[w][i])
    /\ wpc' = [wpc EXCEPT ![w] = "raised"]
    /\ UNCHANGED <<params, queue, tasks, results, tvars, dvars>>

\* ---------------------------------------------------------------- connect
\* One `conn = await asyncssh.connect(**kw)` completing: the next hop of the
\* chain is open. After the last hop connect returns cc, run_task_on_remote
\* binds `connections` and calls task_func on connections[-1].
\* Mutant: connect returns after its first hop.
ChainCompleteEarly(k) == k >= 1

\* `for hop in hops` is over: every hop of jump_hosts + [end_host] is open.
ChainComplete(k) == k = nhops

\* `if prev_conn: kw['tunnel'] = prev_conn`: hop k goes through the hop opened
\* just before it, the first hop through none.
Tunnel(k) == k - 1

\* Mutant: `conn = connections[0]`.
TaskConnFirst(cc) == cc[1]

\* `conn = connections[-1]`
TaskConn(cc) == cc[Len(cc)]

DialOk(t) ==
    /\ tstat[t] = "connecting"
    /\ LoopRunning(owner[t])
    /\ LET k == opened[t] + 1
       IN /\ opened' = [opened EXCEPT ![t] = k]
          /\ sess' = [sess EXCEPT ![t][k] = "open"]
          /\ tunnel' = [tunnel EXCEPT ![t][k] = Tunnel(k)]
          /\ tstat' = [tstat EXCEPT ![t] = IF ChainComplete(k) THEN "running" ELSE @]
          /\ conn' = [conn EXCEPT ![t] =
                        IF ChainComplete(k) THEN TaskConn([j \in 1 .. k |-> j]) ELSE @]
          /\ invoked' = [invoked EXCEPT ![t] = IF ChainComplete(k) THEN @ + 1 ELSE @]
    /\ UNCHANGED <<params, queue, wvars, owner, launched, closeLog, closeErr, failLog, dvars>>

\* ----------------------------------------------------- run_task_on_remote
\* The local `connections`: [] until connect has returned the whole chain.
Connections(t) == IF tstat[t] = "running" THEN [k \in 1 .. nhops |-> k] ELSE <<>>

\* Mutant: `for c in connections`, the opening order.
CloseOrderForward(conns) == conns

\* `for c in reversed(connections)`
CloseOrder(conns) == Reversed(conns)

\* Mutant: c.close() outside a try: the ConnectionError of hop bad ends the loop.
CloseLoopEndsAtError(order, bad) ==
    IF bad = 0 THEN order
    ELSE SubSeq(order, 1, CHOOSE i \in DOMAIN order : order[i] = bad)

\* `try: c.close() / except ConnectionError: lgg.error(..)`: the hops close()
\* is called on when the close of hop bad raises (0: none does).
CloseLoop(order, bad) == order

\* The finally block: close() on each connection in CloseOrder; a
\* ConnectionError of a close is logged and the loop goes on.
Finally(t) ==
    LET order == CloseOrder(Connections(t))
    IN \E bad \in {0} \cup SeqToSet(order) :
           LET called == CloseLoop(order, bad)
           IN /\ closeErr' = [closeErr EXCEPT ![t] = (bad # 0)]
              /\ closeLog' = [closeLog EXCEPT ![t] = called]
              /\ sess' = [sess EXCEPT ![t] =
                            [k \in DOMAIN @ |->
                                IF k \in SeqToSet(called) THEN "closed" ELSE @[k]]]

\* task_func returned: `return await task_func(remote, conn)`, then finally.
TaskReturn(t) ==
    /\ tstat[t] = "running"
    /\ LoopRunning(owner[t])
    /\ tstat' = [tstat EXCEPT ![t] = "returned"]
    /\ Finally(t)
    /\ UNCHANGED <<params, queue, wvars, owner, launched, invoked, opened, tunnel, conn,
                   failLog, dvars>>

\* A dial of connect, or task_func, raised e: the except clauses, then finally.
TaskRaise(t, e) ==
    /\ tstat[t] \in {"connecting", "running"}
    /\ LoopRunning(owner[t])
    /\ tstat' = [tstat EXCEPT ![t] = Outcome(e)]
    /\ failLog' = [failLog EXCEPT ![t] = IF Caught(e) THEN @ + 1 ELSE @]
    /\ Finally(t)
    /\ UNCHANGED <<params, queue, wvars, owner, launched, invoked, opened, tunnel, conn, dvars>>

\* --------------------------------------------------------- spawn_processes
\* An element of the returned list: t.result() of a worker is the list that
\* its spawn_tasks returned.
PyList(items) == [type |-> "list", items |-> items]

WorkersDone == \A w \in Workers : wpc[w] \in {"returned", "raised"}

\* ProcessPoolExecutor(max_workers=processes) raises ValueError unless
\* processes > 0.
PoolRejects(n) == n <= 0

\* With an empty queue `processes` is cut down to qsize() = 0: the executor's
\* constructor raises, and the exception leaves spawn_processes.
PoolRaise ==
    /\ dispatch = "waiting"
    /\ PoolRejects(processes)
    /\ dispatch' = "raised"
    /\ UNCHANGED <<params, queue, wvars, tvars, final>>

\* `completed, pending = await asyncio.wait(blocking_tasks)` then
\* `[t.result() for t in completed]`: completed is a set, so the order of the
\* workers' lists is any order.
DispatchReturn ==
    /\ dispatch = "waiting"
    /\ ~PoolRejects(processes)
    /\ WorkersDone
    /\ \A w \in Workers : wpc[w] = "returned"
    /\ \E p \in Permutations(Workers) : final' = [i \in Workers |-> PyList(results[p[i]])]
    /\ dispatch' = "returned"
    /\ UNCHANGED <<params, queue, wvars, tvars>>

\* t.result() re-raises the exception of a worker whose spawn_tasks raised.
DispatchRaise ==
    /\ dispatch = "waiting"
    /\ WorkersDone
    /\ \E w \in Workers : wpc[w] = "raised"
    /\ dispatch' = "raised"
    /\ UNCHANGED <<params, queue, wvars, tvars, final>>

\* -------------------------------------------------------------------- Next
Next ==
    \/ \E w \in Workers : WorkerCheck(w)
    \/ \E w \in Workers : WorkerGet(w)
    \/ \E w \in Workers : WorkerGatherDone(w)
    \/ \E w \in Workers : WorkerGatherRaise(w)
    \/ \E t \in Targets : DialOk(t)
    \/ \E t \in Targets : TaskReturn(t)
    \/ \E t \in Targets, e \in Errors : TaskRaise(t, e)
    \/ PoolRaise
    \/ DispatchReturn
    \/ DispatchRaise

Spec == Init /\ [][Next]_vars

\* ========================================================================
\* RemoteSpec: one dial of connect, then one call of a command helper of
\* remote.py on the open connection, under a clock that counts in ticks.
\* ========================================================================
MaxTimeout == 2   \* login and command timeouts: 1..MaxTimeout ticks

\* The clock runs a little past the longest timeout, and stops.
Horizon == MaxTimeout + 2
\* An await without a deadline.
NoDeadline == Horizon + 1

DispatchParked ==
    /\ inputs = Parked /\ processes = Parked /\ max_tasks = Parked /\ nhops = Parked
    /\ queue = Parked /\ wpc = Parked /\ tasks = Parked /\ results = Parked
    /\ tstat = Parked /\ owner = Parked /\ launched = Parked /\ invoked = Parked
    /\ opened = Parked /\ sess = Parked /\ tunnel = Parked /\ conn = Parked
    /\ closeLog = Parked /\ closeErr = Parked
    /\ failLog = Parked /\ dispatch = Parked /\ final = Parked

CallFns == {"run_cmd", "run_cmd_logged", "cat_file"}

\* The sudo argument: None, or the elevation secret (a str).
NoSudo == "<None>"
Sudos == {NoSudo, "secret"}
IsStr(sudo) == sudo # NoSudo

\* What the remote process may end with: exit status and stderr.
Exits == [code : {0, 2}, stderr : {"", "no such file"}]
NoExit == [code |-> 0, stderr |-> "<none>"]

\* The cmd argument: a str, or a list of str.
CmdArgs ==
    {[islist |-> FALSE, str |-> "ls  -l /tmp", list |-> <<>>],
     [islist |-> TRUE, str |-> "", list |-> <<"cat", "/etc/hosts">>],
     [islist |-> TRUE, str |-> "", list |-> <<"uptime">>]}

\* cat_file's own command: ['cat', fn].
CatCmd == [islist |-> TRUE, str |-> "", list |-> <<"cat", "/etc/hosts">>]

\* input= is not passed to conn.run; nothing was sent yet.
NoInput == "<no input>"
NotSent == [cmd |-> "<not sent>", input |-> NoInput]

InitRemote ==
    /\ DispatchParked
    /\ rsv = Parked /\ dly = Parked
    /\ \E lt \in 1 .. MaxTimeout :
           dial = [pc |-> "dialing", login_timeout |-> lt, elapsed |-> 0]
    /\ \E fn \in CallFns, sudo \in Sudos, check \in BOOLEAN, to \in 1 .. MaxTimeout,
          cmd \in CmdArgs :
           /\ fn = "cat_file" => cmd = CatCmd
           /\ call = [fn |-> fn, sudo |-> sudo, check |-> check, timeout |-> to,
                   cmd |-> cmd, sent |-> NotSent,
                   pc |-> "unconnected", elapsed |-> 0, proc |-> "none",
                   exit |-> NoExit, ret |-> "none", exc |-> "none", out |-> NoExit,
                   logs |-> 0, logged |-> NoExit]

\* ---------------------------------------------------------------- connect
\* The deadline of `await asyncssh.connect(**kw)`: kw holds host, port, tunnel
\* and options (username, password, known_hosts); remote['login_timeout'] is
\* read nowhere and the await is not wrapped in wait_for.
ConnectDeadline(login_timeout) == NoDeadline

\* Time passes while the dial is pending.
DialTick ==
    /\ dial.pc = "dialing"
    /\ dial.elapsed < Min(ConnectDeadline(dial.login_timeout), Horizon)
    /\ dial' = [dial EXCEPT !.elapsed = @ + 1]
    /\ UNCHANGED <<dispatchVars, call, rsv, dly>>

\* The dial completes: the session is open and the helper may be called.
DialDone ==
    /\ dial.pc = "dialing"
    /\ dial' = [dial EXCEPT !.pc = "open"]
    /\ call' = [call EXCEPT !.pc = "start"]
    /\ UNCHANGED <<dispatchVars, rsv, dly>>

\* The dial raises on its own account (refused, unreachable, auth).
DialFail ==
    /\ dial.pc = "dialing"
    /\ dial' = [dial EXCEPT !.pc = "failed"]
    /\ UNCHANGED <<dispatchVars, call, rsv, dly>>

\* ---------------------------------------------------------------- run_cmd
\* run_cmd's parameters, in order, and Python's binding of a call to them:
\* a keyword that names a parameter already bound by position is a TypeError
\* ("got multiple values for argument").
RunCmdParams == <<"conn", "cmd", "sudo", "check", "timeout">>
BindsTwice(site) == \E i \in 1 .. site.npos : RunCmdParams[i] \in site.kw

\* How each helper reaches run_cmd: a direct call run_cmd(conn, cmd, sudo=..,
\* check=.., timeout=..); run_cmd_logged: all by keyword; cat_file:
\* run_cmd(lgg, conn, cmd, sudo=sudo, encoding=None, timeout=timeout).
CallSite(fn) ==
    CASE fn = "run_cmd" -> [npos |-> 2, kw |-> {"sudo", "check", "timeout"}]
      [] fn = "run_cmd_logged" ->
             [npos |-> 0, kw |-> {"conn", "cmd", "sudo", "check", "timeout"}]
      [] fn = "cat_file" -> [npos |-> 3, kw |-> {"sudo", "encoding", "timeout"}]

\* Mutant: run_cmd_logged leaves check at run_cmd's default.
LoggedCheckDefault == TRUE

\* run_cmd_logged passes check=False.
LoggedCheck == FALSE

\* The check flag conn.run is called with.
EffectiveCheck == IF call.fn = "run_cmd_logged" THEN LoggedCheck ELSE call.check

\* Mutant: the branch without sudo awaits conn.run directly.
RunCmdDeadlineSudoOnly(sudo, timeout) == IF IsStr(sudo) THEN timeout ELSE NoDeadline

\* Both branches of run_cmd: asyncio.wait_for(conn.run(..), timeout=timeout).
RunCmdDeadline(sudo, timeout) == timeout

\* ' '.join(cmd)
RECURSIVE Join(_)
Join(l) ==
    IF l = <<>> THEN ""
    ELSE IF Len(l) = 1 THEN l[1] ELSE l[1] \o " " \o Join(Tail(l))

\* Mutant: the command goes out as it came.
WrapNothing(cmd) == cmd

\* _wrap_sudo: f"sudo -S -p '' {cmd}"
WrapSudo(cmd) == "sudo -S -p '' " \o cmd

\* What run_cmd hands to conn.run: the command line and the process input.
CommandLine(cmd) == IF cmd.islist THEN Join(cmd.list) ELSE cmd.str
Sent(cmd, sudo) ==
    IF IsStr(sudo)
    THEN [cmd |-> WrapSudo(CommandLine(cmd)), input |-> sudo \o "\n"]
    ELSE [cmd |-> CommandLine(cmd), input |-> NoInput]

\* The helper is called: the arguments are bound, and run_cmd starts the
\* remote process inside wait_for.
CallStart ==
    /\ call.pc = "start"
    /\ call' = IF BindsTwice(CallSite(call.fn))
               THEN [call EXCEPT !.pc = "raised", !.exc = "TypeError"]
               ELSE [call EXCEPT !.pc = "waiting", !.proc = "running",
                                 !.sent = Sent(call.cmd, call.sudo)]
    /\ UNCHANGED <<dispatchVars, dial, rsv, dly>>

\* Time passes while conn.run is pending.
CallTick ==
    /\ call.pc = "waiting"
    /\ call.elapsed < Min(RunCmdDeadline(call.sudo, call.timeout), Horizon)
    /\ call' = [call EXCEPT !.elapsed = @ + 1]
    /\ UNCHANGED <<dispatchVars, dial, rsv, dly>>

\* The remote process ends with x: conn.run returns the completed process, or
\* with check set and a non-zero exit raises ProcessError carrying both;
\* run_cmd_logged then logs a non-zero return code.
ProcExit(x) ==
    /\ call.pc = "waiting"
    /\ call' =
         IF EffectiveCheck /\ x.code # 0
         THEN [call EXCEPT !.pc = "raised", !.proc = "exited", !.exit = x,
                           !.exc = "ProcessError", !.out = x]
         ELSE [call EXCEPT !.pc = "returned", !.proc = "exited", !.exit = x,
                           !.ret = "result", !.out = x,
                           !.logs = IF call.fn = "run_cmd_logged" /\ x.code # 0
                                    THEN @ + 1 ELSE @,
                           !.logged = IF call.fn = "run_cmd_logged" /\ x.code # 0
                                      THEN x ELSE @]
    /\ UNCHANGED <<dispatchVars, dial, rsv, dly>>

\* wait_for's deadline passes: it cancels conn.run and raises TimeoutError.
CallTimeout ==
    /\ call.pc = "waiting"
    /\ call.elapsed >= RunCmdDeadline(call.sudo, call.timeout)
    /\ call' = [call EXCEPT !.pc = "raised", !.proc = "cancelled",
                            !.exc = "TimeoutError"]
    /\ UNCHANGED <<dispatchVars, dial, rsv, dly>>

NextRemote ==
    \/ DialTick
    \/ DialDone
    \/ DialFail
    \/ CallStart
    \/ CallTick
    \/ \E x \in Exits : ProcExit(x)
    \/ CallTimeout

RemoteSpec == InitRemote /\ [][NextRemote]_vars

\* ========================================================================
\* ResolveSpec: resolve_cli_arguments over a list of target strings, one
\* iteration of its loop per step. Dicts are objects: a descriptor holds a
\* reference to its end_host dict, which lives in a heap.
\* ========================================================================
MaxRemotes == 3   \* target strings on the command line: 1..MaxRemotes

SSH_PORT == 22

\* A value that is None, and a key that a dict does not have.
NoneStr == "<None>"
Absent == "<absent>"

\* A target string by its parts. uri: it starts with "ssh://". port 0: the
\* URI names no port. A bare string is a host and nothing else.
HostNames == {"a.example", "B.example"}
UriStrings ==
    [uri : {TRUE}, host : HostNames, port : {0, 2222},
     username : {"root"}, password : {"pw"}]
    \cup [uri : {TRUE}, host : HostNames, port : {0, 2222},
          username : {NoneStr}, password : {NoneStr}]
BareStrings ==
    [uri : {FALSE}, host : HostNames, port : {0},
     username : {NoneStr}, password : {NoneStr}]
RemoteStrings == UriStrings \cup BareStrings

\* urlparse(u).hostname is lower-cased.
Lower(h) == IF h = "B.example" THEN "b.example" ELSE h

\* One element of parse_ssh_urls' result.
ParseSshUrl(u) ==
    [host |-> Lower(u.host), port |-> IF u.port # 0 THEN u.port ELSE SSH_PORT,
     username |-> u.username, password |-> u.password]

\* Mutant: r = copy(rr[i - 1]): the new descriptor shares the end_host dict.
ShallowCopy(heap, ref) == [heap |-> heap, ref |-> ref]

\* r = deepcopy(rr[i - 1]): the new descriptor gets an end_host dict of its own.
DeepCopy(heap, ref) == [heap |-> Append(heap, heap[ref]), ref |-> Len(heap) + 1]

\* Mutant: no test of i; r = {} has no 'end_host' to assign into.
FirstBareKeyError == "KeyError"

\* raise MamaError('1st remote must be complete URL')
FirstBareError == "MamaError"

InitResolve ==
    /\ DispatchParked
    /\ dial = Parked /\ call = Parked /\ dly = Parked
    /\ \E n \in 1 .. MaxRemotes :
       \E remotes \in [1 .. n -> RemoteStrings], sudo \in BOOLEAN, strict \in BOOLEAN :
           rsv = [remotes |-> remotes, sudo |-> sudo, strict |-> strict,
                  i |-> 1, heap |-> <<>>, rr |-> <<>>, pc |-> "loop", exc |-> "none"]

\* One iteration of `for i, ar in enumerate(args.remotes)` (i counts from 1).
ResolveStep ==
    /\ rsv.pc = "loop"
    /\ rsv.i <= Len(rsv.remotes)
    /\ LET i  == rsv.i
           ar == rsv.remotes[i]
       IN IF ~ar.uri /\ i = 1
          THEN rsv' = [rsv EXCEPT !.pc = "raised", !.exc = FirstBareError]
          ELSE LET c  == IF i = 1 THEN [heap |-> rsv.heap, ref |-> 0]
                         ELSE DeepCopy(rsv.heap, rsv.rr[i - 1].end_host)
                   ref == IF ar.uri THEN Len(c.heap) + 1 ELSE c.ref
                   h   == IF ar.uri THEN Append(c.heap, ParseSshUrl(ar))
                          ELSE [c.heap EXCEPT ![ref].host = ar.host]
                   r   == [end_host |-> ref,
                           sudo |-> rsv.sudo,
                           known_hosts |-> IF rsv.strict THEN Absent ELSE NoneStr,
                           sudo_pwd |-> IF rsv.sudo THEN h[ref].password ELSE Absent]
               IN rsv' = [rsv EXCEPT !.heap = h, !.rr = Append(@, r), !.i = i + 1]
    /\ UNCHANGED <<dispatchVars, dial, call, dly>>

\* The loop is over: return rr.
ResolveReturn ==
    /\ rsv.pc = "loop"
    /\ rsv.i > Len(rsv.remotes)
    /\ rsv' = [rsv EXCEPT !.pc = "returned"]
    /\ UNCHANGED <<dispatchVars, dial, call, dly>>

NextResolve == ResolveStep \/ ResolveReturn

ResolveSpec == InitResolve /\ [][NextResolve]_vars

\* Descriptor d as its reader sees it: the end_host dict in place of its reference.
Deref(d) == [d EXCEPT !.end_host = rsv.heap[d.end_host]]

\* ========================================================================
\* DelaySpec: one Delay object of utils.py and the calls made on it.
\* ========================================================================
MaxCalls == 14   \* delay()/wait() calls since construction or the last reset
MaxResets == 1   \* reset() calls on the object

DELAYS == <<0, 1, 2, 3, 5, 8, 13, 21, 34, 55, 89, 144>>

\* The argument max_ of the constructor: None, or an int.
MaxArgs == [given : {FALSE}, m : {0}] \cup [given : {TRUE}, m : {0, 4, 200}]

\* self._max = max_ if max_ else DELAYS[-1]
InitMax(a) == IF a.given /\ a.m # 0 THEN a.m ELSE DELAYS[Len(DELAYS)]

\* Mutant: a counter past the end starts over.
ClampWrap(cnt) == IF cnt >= Len(DELAYS) THEN 0 ELSE cnt

\* if self._cnt >= len(DELAYS): self._cnt = len(DELAYS) - 1
Clamp(cnt) == IF cnt >= Len(DELAYS) THEN Len(DELAYS) - 1 ELSE cnt

\* The counter after `self._cnt += 1` and the clamp, and the value returned
\* (DELAYS is indexed from 0 in the program, from 1 here).
Stepped(cnt) == Clamp(cnt + 1)
Returned(cnt, max) == Min(DELAYS[cnt + 1], max)

\* Mutant: reset() leaves the counter where it is.
ResetKeepsCnt(cnt) == cnt

\* reset(): self._cnt = -1
ResetCnt(cnt) == -1

\* calls, resets, last, slept and op observe the object, first and seq are the
\* values returned before the first reset and since the last one; _max and
\* _cnt are the object.
InitDelay ==
    /\ DispatchParked
    /\ dial = Parked /\ call = Parked /\ rsv = Parked
    /\ \E a \in MaxArgs :
           dly = [max_ |-> a, _max |-> InitMax(a), _cnt |-> -1,
                  calls |-> 0, resets |-> 0, last |-> 0, slept |-> 0, op |-> "init",
                  first |-> <<>>, seq |-> <<>>]

\* delay()
Delay_delay ==
    /\ dly.calls < MaxCalls
    /\ LET c == Stepped(dly._cnt)
       IN dly' = [dly EXCEPT !._cnt = c, !.last = Returned(c, dly._max),
                             !.calls = @ + 1, !.op = "delay",
                             !.seq = Append(@, Returned(c, dly._max)),
                             !.first = IF dly.resets = 0
                                       THEN Append(@, Returned(c, dly._max)) ELSE @]
    /\ UNCHANGED <<dispatchVars, dial, call, rsv>>

\* wait(): await asyncio.sleep(self.delay())
Delay_wait ==
    /\ dly.calls < MaxCalls
    /\ LET c == Stepped(dly._cnt)
       IN dly' = [dly EXCEPT !._cnt = c, !.last = Returned(c, dly._max),
                             !.slept = Returned(c, dly._max),
                             !.calls = @ + 1, !.op = "wait",
                             !.seq = Append(@, Returned(c, dly._max)),
                             !.first = IF dly.resets = 0
                                       THEN Append(@, Returned(c, dly._max)) ELSE @]
    /\ UNCHANGED <<dispatchVars, dial, call, rsv>>

\* reset()
Delay_reset ==
    /\ dly.resets < MaxResets
    /\ dly' = [dly EXCEPT !._cnt = ResetCnt(@), !.calls = 0, !.resets = @ + 1,
                          !.op = "reset", !.seq = <<>>]
    /\ UNCHANGED <<dispatchVars, dial, call, rsv>>

NextDelay == Delay_delay \/ Delay_wait \/ Delay_reset

DelaySpec == InitDelay /\ [][NextDelay]_vars

\* ================================================================== claims
DispatchEnded == dispatch \in {"returned", "raised"}

TasksOf(w) == {t \in Targets : owner[t] = w}

\* The result entries collected by the workers, as a set.
Collected == UNION {SeqToSet(results[w]) : w \in Workers}

\* C1: each target is pulled by exactly one worker and its task is launched
\* exactly once: never twice, and when the dispatch has ended every one of the
\* N targets has been launched.
C1_EachTargetLaunchedOnce ==
    /\ \A t \in Targets : launched[t] <= 1
    /\ DispatchEnded => \A t \in Targets : launched[t] = 1 /\ owner[t] \in Workers

\* C2: every worker leaves its pull loop and returns: the dispatch never comes
\* to rest (no step of a worker, of a task or of spawn_processes possible)
\* with a worker still inside spawn_tasks. Stated for the runs in which no
\* exception leaves a task, so that it is the queue alone that decides it.
C2_EveryWorkerLeavesLoop ==
    (\A t \in Targets : ~Propagates(t)) => ((ENABLED Next) \/ WorkersDone)

\* C3: a task that raised a timeout or connection error adds no entry, not even
\* a placeholder, to its worker's results: a worker that returned holds one
\* entry per task of its own minus the failed ones.
C3_FailedTaskAddsNoEntry ==
    \A w \in Workers :
        /\ \A i \in DOMAIN results[w] : results[w][i] # None
        /\ wpc[w] = "returned" =>
               Len(results[w]) = Cardinality(TasksOf(w))
                                   - Cardinality({t \in TasksOf(w) : tstat[t] = "failed"})

\* C4: the list spawn_processes returns holds the R values themselves, one
\* element per task that completed without error, not one list per worker.
\* Stated for the dispatches in which every task returned a value.
C4_FinalIsFlatListOfValues ==
    (dispatch = "returned" /\ \A t \in Targets : tstat[t] = "returned") =>
        /\ \A i \in DOMAIN final : final[i].type # "list"
        /\ Len(final) = Len(inputs)

\* C5: a timeout or connection error of one task never aborts anything else:
\* a worker's spawn_tasks ends by an exception only if one of its tasks raised
\* an exception that is neither; in a worker that returned, every task is
\* resolved and every task that returned a value has it in the worker's
\* results; and once all workers returned, no target is left in the queue.
C5_ClassifiedFailureIsolated ==
    /\ \A w \in Workers :
          /\ wpc[w] = "raised" => \E t \in TasksOf(w) : tstat[t] = Raised("unexpected")
          /\ wpc[w] = "returned" =>
                \A u \in TasksOf(w) :
                    /\ Resolved(u)
                    /\ tstat[u] = "returned" => R(u) \in SeqToSet(results[w])
    /\ (\A w \in Workers : wpc[w] = "returned") => queue = <<>>

\* A task failed with a caught error while its sibling of the same batch
\* went on to return its value, which the worker returned.
C5_Witness ==
    /\ processes = 1 /\ max_tasks = 2 /\ Len(inputs) = 2
    /\ tstat[1] = "failed" /\ tstat[2] = "returned"
    /\ wpc[1] = "returned"
    /\ results[1] = <<None, R(2)>>

\* C6: an unexpected exception of a task drops only that task: no worker ends
\* by an exception, the dispatch returns, every target is launched and every
\* value a task returned is among the collected results. Stated for the
\* dispatches of at least one target.
C6_UnexpectedErrorDropsOnlyTask ==
    /\ \A w \in Workers : wpc[w] # "raised"
    /\ inputs # <<>> => dispatch # "raised"
    /\ DispatchEnded =>
           \A t \in Targets : /\ launched[t] = 1
                              /\ tstat[t] = "returned" => R(t) \in Collected

\* C7: when the dispatch has ended, close has been called on every hop of
\* every chain that was fully opened.
C7_OpenedChainsClosedAtEnd ==
    DispatchEnded =>
        \A t \in Targets : opened[t] = nhops => SeqToSet(closeLog[t]) = Hops

\* C8: a connect that failed at hop k leaves none of the hops 1..k-1 it had
\* opened open: the task has resolved only after close was called on them.
C8_FailedConnectClosesOpenedHops ==
    \A t \in Targets :
        (Resolved(t) /\ opened[t] < nhops) =>
            \A k \in 1 .. opened[t] : sess[t][k] = "closed"

\* C9: close is called on the hops of a fully opened chain in the reverse of
\* the opening order: hop n first, hop 1 last, never on a hop before a hop
\* opened after it.
C9_TeardownInReverseOrder ==
    \A t \in Targets :
        /\ \A i, j \in DOMAIN closeLog[t] : i < j => closeLog[t][i] > closeLog[t][j]
        /\ (Resolved(t) /\ opened[t] = nhops) =>
               closeLog[t] = [i \in 1 .. nhops |-> nhops + 1 - i]

\* A chain of two hops was torn down: hop 2, then hop 1.
C9_Witness == \E t \in Targets : nhops = 2 /\ closeLog[t] = <<2, 1>>

\* C10: when the dispatch has ended every target is accounted for: its value
\* is among the collected results, or exactly one failure entry names it.
C10_EveryTargetAccountedFor ==
    DispatchEnded =>
        \A t \in Targets : R(t) \in Collected \/ failLog[t] = 1

\* Tasks of worker w that were launched and have not resolved.
InFlight(w) == {t \in TasksOf(w) : tstat[t] \in {"connecting", "running"}}

\* C11: in every reachable state a worker has at most max_tasks tasks that
\* were launched and have not yet resolved.
C11_InFlightAtMostMaxTasks ==
    \A w \in Workers : Cardinality(InFlight(w)) <= max_tasks

\* A worker with a full batch of two tasks in flight.
C11_Witness ==
    \E w \in Workers : max_tasks = 2 /\ Cardinality(InFlight(w)) = 2 /\ wpc[w] = "gather"

C13_DialBoundedByLoginTimeout ==
    dial.pc = "dialing" => dial.elapsed <= dial.login_timeout

\* C14: on a non-zero exit c with stderr s run_cmd_logged does not raise,
\* returns the result carrying c and s and logs one error entry with them;
\* run_cmd with check=True raises an error carrying c and s; on exit 0 neither
\* raises and nothing is logged.
C14_LoggedAndStrictModes ==
    LET nz == call.proc = "exited" /\ call.exit.code # 0
        z  == call.proc = "exited" /\ call.exit.code = 0
    IN /\ (call.fn = "run_cmd_logged" /\ nz) =>
              /\ call.pc = "returned" /\ call.exc = "none"
              /\ call.out = call.exit
              /\ call.logs = 1 /\ call.logged = call.exit
       /\ (call.fn = "run_cmd" /\ call.check /\ nz) =>
              /\ call.pc = "raised" /\ call.exc = "ProcessError"
              /\ call.out = call.exit
       /\ (call.fn \in {"run_cmd", "run_cmd_logged"} /\ z) =>
              /\ call.pc = "returned" /\ call.exc = "none"
              /\ call.logs = 0
       /\ call.fn = "run_cmd" => call.logs = 0

\* run_cmd_logged returned exit code 2 and stderr "no such file", logged once.
C14_Witness ==
    /\ call.fn = "run_cmd_logged" /\ call.pc = "returned"
    /\ call.out = [code |-> 2, stderr |-> "no such file"]
    /\ call.logs = 1

\* C15: cat_file raises no error of its own: it ends by returning, None when
\* the remote read exited non-zero and the lines when it exited 0 (or by the
\* timeout of the read).
C15_CatFileNoneOrLines ==
    call.fn = "cat_file" =>
        /\ call.pc = "raised" => call.exc = "TimeoutError"
        /\ call.pc = "returned" =>
               call.ret = (IF call.exit.code # 0 THEN "None" ELSE "lines")

C17_SudoWithoutPasswordFails ==
    rsv.pc = "returned" =>
        ~(rsv.sudo /\ \E i \in 1 .. Len(rsv.rr) :
                          Deref(rsv.rr[i]).end_host.password = NoneStr)

\* C18: a first target string that is a bare hostname ends the resolution
\* with a MamaError, and nothing is returned.
C18_FirstBareFails ==
    ~rsv.remotes[1].uri =>
        /\ rsv.pc # "returned"
        /\ rsv.rr = <<>>
        /\ rsv.pc # "loop" => rsv.pc = "raised" /\ rsv.exc = "MamaError"

\* The resolution of a list with a bare first entry has raised.
C18_Witness ==
    /\ ~rsv.remotes[1].uri /\ Len(rsv.remotes) = 2
    /\ rsv.pc = "raised"

\* C19: every returned descriptor has a password value in sudo_pwd if and only
\* if its sudo is true.
C19_SudoPwdIffSudo ==
    rsv.pc = "returned" =>
        \A i \in 1 .. Len(rsv.rr) :
            (rsv.rr[i].sudo_pwd \notin {Absent, NoneStr}) <=> rsv.rr[i].sudo

\* C20: with no cap the k-th delay() since construction or the last reset
\* returns the k-th of 0,1,2,3,5,8,13,21,34,55,89,144 for k = 1..12, and 144
\* from the 13th call on.
C20_KthDelayUncapped ==
    LET expected == <<0, 1, 2, 3, 5, 8, 13, 21, 34, 55, 89, 144>>
        k == dly.calls
    IN (~dly.max_.given /\ dly.op \in {"delay", "wait"}) =>
           dly.last = (IF k <= 12 THEN expected[k] ELSE 144)

\* The 13th call after a reset, uncapped.
C20_Witness ==
    /\ ~dly.max_.given /\ dly.resets = 1
    /\ dly.op = "delay" /\ dly.calls = 13 /\ dly.last = 144

\* C21: whatever was called before it, after reset() the first delay() returns
\* 0 and the delays returned are, call for call, those returned after
\* construction.
C21_ResetRestartsSequence ==
    dly.resets >= 1 =>
        /\ dly.seq # <<>> => dly.seq[1] = 0
        /\ \A k \in 1 .. Min(Len(dly.seq), Len(dly.first)) : dly.seq[k] = dly.first[k]

\* A capped object reset after it had run past the end of the sequence, and
\* called again up to the cap.
C21_Witness ==
    /\ dly.max_.given /\ dly.max_.m = 4 /\ dly.resets = 1
    /\ Len(dly.first) >= 13 /\ Len(dly.seq) >= 5
    /\ dly.seq[5] = 4 /\ dly.first[5] = 4

\* C22: an object constructed with the maximum m >= 0 returns min(s, m) from
\* every delay(), s being the sequence value of the step, and so never more
\* than m.
C22_DelayIsMinOfStepAndMax ==
    (dly.max_.given /\ dly.op \in {"delay", "wait"}) =>
        /\ dly.last = Min(DELAYS[dly._cnt + 1], dly.max_.m)
        /\ dly.last <= dly.max_.m

\* C30: no step of the resolution changes the end host (host, port, username,
\* password) of a descriptor that is already in the list, a step that builds
\* the next descriptor from a bare hostname included.
C30_ResolvedDescriptorsUntouched ==
    [][\A j \in 1 .. Len(rsv.rr) :
           rsv'.heap[rsv'.rr[j].end_host] = rsv.heap[rsv.rr[j].end_host]]_vars

\* Two descriptors built from bare hostnames behind the first, each with the
\* host of its own target string.
C30_Witness ==
    /\ Len(rsv.rr) = 3 /\ ~rsv.remotes[2].uri /\ ~rsv.remotes[3].uri
    /\ Deref(rsv.rr[1]).end_host.host = "a.example"
    /\ Deref(rsv.rr[2]).end_host.host = "B.example"
    /\ Deref(rsv.rr[3]).end_host.host = "a.example"

\* C26: the command line run_cmd sends is the string it was given, unchanged,
\* or the argument list joined with single spaces; with an elevation secret
\* the line is prefixed with "sudo -S -p ''" and the process input is the
\* secret and a newline; without one the line goes unwrapped and without
\* input.
C26_CommandLineAndInput ==
    (call.fn \in {"run_cmd", "run_cmd_logged"} /\ call.sent # NotSent) =>
        LET line == CASE call.cmd = [islist |-> FALSE, str |-> "ls  -l /tmp", list |-> <<>>]
                            -> "ls  -l /tmp"
                      [] call.cmd = [islist |-> TRUE, str |-> "", list |-> <<"cat", "/etc/hosts">>]
                            -> "cat /etc/hosts"
                      [] call.cmd = [islist |-> TRUE, str |-> "", list |-> <<"uptime">>]
                            -> "uptime"
        IN IF call.sudo = "secret"
           THEN call.sent = [cmd |-> "sudo -S -p '' " \o line, input |-> "secret\n"]
           ELSE call.sent = [cmd |-> line, input |-> NoInput]

\* An argument list sent under sudo.
C26_Witness ==
    /\ call.fn = "run_cmd" /\ call.pc = "waiting"
    /\ call.sent = [cmd |-> "sudo -S -p '' cat /etc/hosts", input |-> "secret\n"]

\* The connection of task t in the terms of the state machine. The finally
\* block runs without an await, so Closing is passed inside the step that
\* ends the task.
ConnState(t) ==
    CASE tstat[t] = "queued" -> "Unconnected"
      [] tstat[t] = "connecting" -> "Connecting"
      [] tstat[t] = "running" -> "Connected"
      [] OTHER -> IF conn[t] # 0 THEN "Closed" ELSE "Failed"

ConnMoves ==
    {<<"Unconnected", "Connecting">>, <<"Connecting", "Connected">>,
     <<"Connected", "Closed">>, <<"Connecting", "Failed">>}

\* C23: the connection of a task moves only Unconnected -> Connecting ->
\* Connected -> (Closing ->) Closed or Connecting -> Failed; once Closed or
\* Failed nothing is dialed, called or closed on it any more; and task_func is
\* called only at the moment the whole chain is open.
C23_ConnectionStateMachine ==
    [][\A t \in Targets :
          /\ \/ ConnState(t)' = ConnState(t)
             \/ <<ConnState(t), ConnState(t)'>> \in ConnMoves
          /\ ConnState(t) \in {"Closed", "Failed"} =>
                 /\ ConnState(t)' = ConnState(t)
                 /\ opened'[t] = opened[t] /\ invoked'[t] = invoked[t]
                 /\ sess'[t] = sess[t] /\ closeLog'[t] = closeLog[t]
          /\ invoked'[t] # invoked[t] =>
                 /\ ConnState(t)' = "Connected"
                 /\ \A k \in Hops : sess'[t][k] = "open"]_vars

\* One task Closed after its task function ran on a chain of two hops, another
\* Failed at its second hop.
C23_Witness ==
    /\ nhops = 2
    /\ \E t, u \in Targets :
           /\ ConnState(t) = "Closed" /\ invoked[t] = 1
           /\ ConnState(u) = "Failed" /\ opened[u] = 1

\* C24: a worker pulls a target only while it has fewer than max_tasks tasks
\* in flight, and every task of its earlier batches has resolved at that
\* moment: the only unresolved tasks a pulling worker owns are those of the
\* batch it is filling.
C24_HeadOfLineBatching ==
    [][\A t \in Targets :
          owner'[t] # owner[t] =>
              LET w == owner'[t]
              IN /\ Cardinality(InFlight(w)) < max_tasks
                 /\ Len(tasks[w]) < max_tasks
                 /\ \A u \in TasksOf(w) : u \in SeqToSet(tasks[w]) \/ Resolved(u)]_vars

\* A worker with batches of one that has pulled its second target, the task
\* of the first batch resolved.
C24_Witness ==
    \E w \in Workers :
        /\ max_tasks = 1 /\ Cardinality(TasksOf(w)) = 2
        /\ \E t, u \in TasksOf(w) : Resolved(t) /\ tstat[u] = "connecting"

\* C25: the hops of a chain are opened one after another in the order of
\* jump_hosts + [end_host]: the open hops are always the first ones of the
\* chain, the first was dialed directly and every other through the hop
\* before it, and the session task_func is given is that of the last hop, the
\* end host, with the whole chain open.
C25_HopsOpenedInOrderAndTunneled ==
    \A t \in Targets :
        /\ \A k \in Hops :
               IF k <= opened[t]
               THEN sess[t][k] # "none" /\ tunnel[t][k] = k - 1
               ELSE sess[t][k] = "none" /\ tunnel[t][k] = -1
        /\ invoked[t] > 0 => conn[t] = nhops /\ opened[t] = nhops
        /\ tstat[t] = "running" => \A k \in Hops : sess[t][k] = "open"

\* task_func runs on the end host behind one jump host.
C25_Witness ==
    \E t \in Targets :
        /\ nhops = 2 /\ tstat[t] = "running"
        /\ tunnel[t] = <<0, 1>> /\ conn[t] = 2

\* C27: a dispatch of no targets ends by returning, and returns an empty
\* list.
C27_EmptyDispatchReturnsEmpty ==
    (inputs = <<>> /\ dispatch # "waiting") =>
        dispatch = "returned" /\ final = <<>>

\* C28: when the close of one hop raises a connection error during teardown,
\* close has still been called on every hop of the chain, last hop first, no
\* connection error has left the task, and the value the task returned is in
\* its worker's results once the worker has returned.
C28_CloseErrorDoesNotStopTeardown ==
    \A t \in Targets :
        closeErr[t] =>
            /\ closeLog[t] = Reversed([k \in 1 .. nhops |-> k])
            /\ tstat[t] \in {"returned", "failed", "raised_unexpected"}
            /\ (tstat[t] = "returned" /\ wpc[owner[t]] = "returned") =>
                   R(t) \in SeqToSet(results[owner[t]])

\* A close raised on a chain of two hops, both hops had close called on them
\* and the task's value was collected.
C28_Witness ==
    \E t \in Targets :
        /\ nhops = 2 /\ closeErr[t] /\ closeLog[t] = <<2, 1>>
        /\ tstat[t] = "returned" /\ R(t) \in SeqToSet(results[owner[t]])

\* C29: a worker that found the queue empty with a batch not yet full returns
\* only after every task of that batch has resolved, and its result list then
\* has the entries of those tasks at its end, in the order they were pulled.
C29_FinalPartialBatchAwaited ==
    \A w \in Workers :
        /\ (wpc[w] = "returned" /\ tasks[w] # <<>>) =>
               /\ \A i \in DOMAIN tasks[w] : Resolved(tasks[w][i])
               /\ Len(results[w]) >= Len(tasks[w])
               /\ SubSeq(results[w], Len(results[w]) - Len(tasks[w]) + 1, Len(results[w]))
                      = [i \in DOMAIN tasks[w] |-> ReturnValue(tasks[w][i])]
        /\ wpc[w] = "returned" => \A t \in TasksOf(w) : Resolved(t)

\* A worker with batches of two that got one target only, and returned its
\* value.
C29_Witness ==
    \E w \in Workers :
        /\ max_tasks = 2 /\ wpc[w] = "returned"
        /\ Len(tasks[w]) = 1 /\ results[w] = <<R(tasks[w][1])>>

====
